---- MODULE Spec2Model ----
(***************************************************************************)
(* Model of someday's GPU resource wrappers (src/src/buffer.rs: Buffer,    *)
(* Image) and of the reflection-driven descriptor code                      *)
(* (src/src/render/shaders.rs: Shader::create_descriptor_set_layouts,       *)
(* Shader::create_descriptor_sets).                                         *)
(*                                                                         *)
(* Rust's Option<T> is modelled as a set: None is {} and Some(x) is {x}.    *)
(* A panic (unwrap on None or Err, panic!, unimplemented!, a slice index    *)
(* out of range) ends the call with result "panic" and leaves the state as  *)
(* the code had left it when it panicked.                                   *)
(***************************************************************************)
EXTENDS Integers, Sequences, FiniteSets, TLC

VARIABLES
    buf,        \* the Buffer struct (buffer.rs:9-15), once constructed
    img,        \* the Image struct (buffer.rs:94-99), once constructed
    allocator,  \* gpu_allocator's state for the resource's Allocation
    device,     \* the device's objects: buffer, image and image views
    mem,        \* host memory from the allocation's mapped pointer onwards
    last,       \* the last call on the resource and what it did
    shader,     \* Shader.spirv_descripor_set_layouts (shaders.rs:15)
    built,      \* what create_descriptor_set_layouts returned
    sets        \* what create_descriptor_sets did

vars == <<buf, img, allocator, device, mem, last, shader, built, sets>>

None == {}
Some(x) == {x}
Unwrap(o) == CHOOSE x \in o : TRUE

Max(S) == CHOOSE x \in S : \A y \in S : y <= x

(***************************************************************************)
(* Bounds of the model.                                                     *)
(***************************************************************************)
MaxSize == 2          \* buffer sizes 1..MaxSize bytes
MaxOffset == 2        \* byte offsets 0..MaxOffset given to copy_from_slice
MaxData == 2          \* slices of 0..MaxData bytes given to copy_from_slice
MaxViews == 2         \* create_view calls that return a view, per image
MaxDestroyCalls == 3  \* destroy calls per resource

\* The bytes a slice can hold; mapped memory starts zeroed.
Bytes == {1, 2}
\* The modelled window of host memory: every write of the model lands in it.
MemLen == MaxOffset + MaxData
MemIndex == 0 .. (MemLen - 1)
Slices == UNION {[1..n -> Bytes] : n \in 0..MaxData}

\* The handles of the resource under test.
BufferHandle == 1
ImageHandle == 1
BufferAllocation == 1
ImageAllocation == 2

(***************************************************************************)
(* State before any resource is constructed.                                *)
(***************************************************************************)
NoBuffer ==
    [constructed |-> FALSE, buffer |-> BufferHandle, allocation |-> None,
     size |-> 0, has_been_written_to |-> FALSE]

NoImage ==
    [constructed |-> FALSE, image |-> ImageHandle, allocation |-> None,
     view |-> None]

\* live: allocations handed out and not freed; mapped: those with a mapped
\* host pointer; freeCalls: how often free() was given each allocation.
AllocatorInit ==
    [live |-> {}, mapped |-> {},
     freeCalls |-> [a \in {BufferAllocation, ImageAllocation} |-> 0]]

\* buffers, images, views: live device objects; viewsCreated: views handed out
\* so far (view handles are 1, 2, ...); the destroy* fields count the calls of
\* destroy_buffer / destroy_image / destroy_image_view; viewsAtImageDestroy:
\* the views that were live when destroy_image was called.
DeviceInit ==
    [buffers |-> {}, images |-> {}, views |-> {}, viewsCreated |-> 0,
     destroyBuffer |-> 0, destroyImage |-> 0, destroyView |-> 0,
     viewsAtImageDestroy |-> {}]

\* op: the method called; result: "ok", "panic" or "fault" (the process died);
\* destroyed: the resource had been destroyed before the call; oob: the call
\* was a write with offset + length > size; deviceCalls / allocatorCalls: the
\* calls the method made on the device / the allocator; changed: a field of
\* the resource changed; created: the device made a new object; memChanged: a
\* byte of mapped memory changed; flagChanged: has_been_written_to changed;
\* written: some copy_from_slice so far returned normally; destroyCalls:
\* destroy calls so far.
LastInit ==
    [op |-> "none", result |-> "ok", destroyed |-> FALSE, oob |-> FALSE,
     deviceCalls |-> 0, allocatorCalls |-> 0, changed |-> FALSE,
     created |-> FALSE, memChanged |-> FALSE, flagChanged |-> FALSE,
     written |-> FALSE, destroyCalls |-> 0]

ZeroMem == [i \in MemIndex |-> 0]

(***************************************************************************)
(* Buffer (buffer.rs:17-92).  Each method is an operator from the state it  *)
(* reads to the set of outcomes it can have: an outcome is the state it     *)
(* leaves, its result, and the calls it made.                               *)
(***************************************************************************)
Outcome(b, i, al, dv, m, res, dcalls, acalls) ==
    [buf |-> b, img |-> i, allocator |-> al, device |-> dv, mem |-> m,
     result |-> res, deviceCalls |-> dcalls, allocatorCalls |-> acalls]

\* Allocator::free: Ok for a live allocation, Err for one already freed.
AllocatorFree(al, a) ==
    [al EXCEPT !.live = @ \ {a}, !.freeCalls[a] = @ + 1]

\* Buffer::new: create_buffer, allocate, bind, and the struct of lines 61-67.
\* `mapped` is whether the memory location chosen gives a mapped pointer.
BufferNew(al, dv, size, mapped) ==
    Outcome([constructed |-> TRUE, buffer |-> BufferHandle,
             allocation |-> Some(BufferAllocation), size |-> size,
             has_been_written_to |-> FALSE],
            NoImage,
            [al EXCEPT !.live = @ \cup {BufferAllocation},
                       !.mapped = IF mapped THEN @ \cup {BufferAllocation} ELSE @],
            [dv EXCEPT !.buffers = @ \cup {BufferHandle}],
            ZeroMem, "ok", 3, 1)

\* Buffer::destroy: allocation.take().unwrap() panics on None before free()
\* is called; otherwise free, then destroy_buffer.
BufferDestroy(b, al, dv, m) ==
    IF b.allocation = None
    THEN {Outcome(b, NoImage, al, dv, m, "panic", 0, 0)}
    ELSE {Outcome([b EXCEPT !.allocation = None], NoImage,
                  AllocatorFree(al, Unwrap(b.allocation)),
                  [dv EXCEPT !.buffers = @ \ {b.buffer}, !.destroyBuffer = @ + 1],
                  m, "ok", 1, 1)}

\* The copy of lines 84-89: slice[k] goes to byte offset + k - 1 of the mapped
\* memory, whatever the buffer's size is.
CopyBytes(m, slice, offset) ==
    [i \in MemIndex |->
        IF i >= offset /\ i < offset + Len(slice) THEN slice[i - offset + 1] ELSE m[i]]

\* Buffer::copy_from_slice with the flag set on entry, before the checks.
BufferCopyFromSlice_FlagFirst(b, al, dv, m, slice, offset) ==
    LET b1 == [b EXCEPT !.has_been_written_to = TRUE]
    IN  IF b.allocation = None
        THEN {Outcome(b1, NoImage, al, dv, m, "panic", 0, 0)}
        ELSE IF Unwrap(b.allocation) \notin al.mapped
        THEN {Outcome(b1, NoImage, al, dv, m, "panic", 0, 0)}
        ELSE {Outcome(b1, NoImage, al, dv, CopyBytes(m, slice, offset), "ok", 0, 0)}

\* Buffer::copy_from_slice: panics when the allocation is gone (line 80) or has
\* no mapped pointer (unwrap, line 85); else copies and sets the flag.  The
\* size check of line 82 is commented out, so a write past the buffer's end is
\* made like any other: it is undefined behaviour, whose outcomes are the
\* bytes landing in the memory behind the buffer, or the process faulting.
BufferCopyFromSlice(b, al, dv, m, slice, offset) ==
    IF b.allocation = None
    THEN {Outcome(b, NoImage, al, dv, m, "panic", 0, 0)}
    ELSE IF Unwrap(b.allocation) \notin al.mapped
    THEN {Outcome(b, NoImage, al, dv, m, "panic", 0, 0)}
    ELSE {Outcome([b EXCEPT !.has_been_written_to = TRUE], NoImage, al, dv,
                  CopyBytes(m, slice, offset), "ok", 0, 0)}
         \cup (IF offset + Len(slice) > b.size
               THEN {Outcome(b, NoImage, al, dv, m, "fault", 0, 0)}
               ELSE {})

(***************************************************************************)
(* Image (buffer.rs:101-171).                                               *)
(***************************************************************************)
\* Image::new: create_image, allocate, bind, and the struct of lines 127-132.
ImageNew(al, dv) ==
    Outcome(NoBuffer,
            [constructed |-> TRUE, image |-> ImageHandle,
             allocation |-> Some(ImageAllocation), view |-> None],
            [al EXCEPT !.live = @ \cup {ImageAllocation}],
            [dv EXCEPT !.images = @ \cup {ImageHandle}],
            ZeroMem, "ok", 3, 1)

\* Image::create_view: create_image_view(...).unwrap(), then self.view =
\* Some(view): the field is overwritten, whatever it held.  Nothing looks at
\* self.allocation, so the call is made on a destroyed image too: the device
\* is then given a destroyed image handle (invalid use), and either returns a
\* view all the same or an error, on which unwrap panics.
ImageCreateView(i, al, dv, m) ==
    LET view == dv.viewsCreated + 1
        made == Outcome(NoBuffer, [i EXCEPT !.view = Some(view)], al,
                        [dv EXCEPT !.views = @ \cup {view}, !.viewsCreated = view],
                        m, "ok", 1, 0)
    IN  IF i.image \in dv.images
        THEN {made}
        ELSE {made, Outcome(NoBuffer, i, al, dv, m, "panic", 1, 0)}

\* Image::destroy: destroy the view self.view holds, if any; then
\* allocation.take().unwrap(), which panics on None; then free and
\* destroy_image.
ImageDestroy(i, al, dv, m) ==
    LET dv1 == IF i.view = None THEN dv
               ELSE [dv EXCEPT !.views = @ \ i.view, !.destroyView = @ + 1]
        n1 == IF i.view = None THEN 0 ELSE 1
        i1 == [i EXCEPT !.view = None]
    IN  IF i.allocation = None
        THEN {Outcome(NoBuffer, i1, al, dv1, m, "panic", n1, 0)}
        ELSE {Outcome(NoBuffer, [i1 EXCEPT !.allocation = None],
                      AllocatorFree(al, Unwrap(i.allocation)),
                      [dv1 EXCEPT !.images = @ \ {i.image}, !.destroyImage = @ + 1,
                                  !.viewsAtImageDestroy = dv1.views],
                      m, "ok", n1 + 1, 1)}

(***************************************************************************)
(* The resource under test: one Buffer or one Image per behaviour.  The two *)
(* share nothing but the allocator and the device, which keep their state   *)
(* per resource.                                                            *)
(***************************************************************************)
NoShader == <<>>
NotBuilt == [result |-> "none", set_layouts |-> <<>>, set_layout_info |-> <<>>]
NoSets == [result |-> "none", descriptor_pool_sizes |-> <<>>, max_sets |-> 0,
           descriptor_sets |-> <<>>]

\* A buffer or image is destroyed once its allocation has been taken.
Destroyed(r) == r.constructed /\ r.allocation = None

\* A process that faulted runs no further call.
Alive == last.result # "fault"

\* The state after a call `op` with outcome o.
Apply(op, o, oob) ==
    /\ buf' = o.buf
    /\ img' = o.img
    /\ allocator' = o.allocator
    /\ device' = o.device
    /\ mem' = o.mem
    /\ last' = [op |-> op, result |-> o.result,
                destroyed |-> Destroyed(buf) \/ Destroyed(img),
                oob |-> oob,
                deviceCalls |-> o.deviceCalls,
                allocatorCalls |-> o.allocatorCalls,
                changed |-> o.buf # buf \/ o.img # img,
                created |-> o.device.viewsCreated > device.viewsCreated,
                memChanged |-> o.mem # mem,
                flagChanged |-> o.buf.has_been_written_to # buf.has_been_written_to,
                written |-> last.written \/ (op = "copy_from_slice" /\ o.result = "ok"),
                destroyCalls |-> last.destroyCalls + (IF op = "destroy" THEN 1 ELSE 0)]
    /\ UNCHANGED <<shader, built, sets>>

Buffer_new ==
    /\ ~buf.constructed /\ ~img.constructed
    /\ \E size \in 1..MaxSize, mapped \in BOOLEAN :
          Apply("new", BufferNew(allocator, device, size, mapped), FALSE)

Buffer_destroy ==
    /\ buf.constructed /\ Alive
    /\ last.destroyCalls < MaxDestroyCalls
    /\ \E o \in BufferDestroy(buf, allocator, device, mem) :
          Apply("destroy", o, FALSE)

Buffer_copy_from_slice ==
    /\ buf.constructed /\ Alive
    /\ \E slice \in Slices, offset \in 0..MaxOffset :
       \E o \in BufferCopyFromSlice(buf, allocator, device, mem, slice, offset) :
          Apply("copy_from_slice", o, offset + Len(slice) > buf.size)

Image_new ==
    /\ ~buf.constructed /\ ~img.constructed
    /\ Apply("new", ImageNew(allocator, device), FALSE)

Image_create_view ==
    /\ img.constructed /\ Alive
    /\ device.viewsCreated < MaxViews
    /\ \E o \in ImageCreateView(img, allocator, device, mem) :
          Apply("create_view", o, FALSE)

Image_destroy ==
    /\ img.constructed /\ Alive
    /\ last.destroyCalls < MaxDestroyCalls
    /\ \E o \in ImageDestroy(img, allocator, device, mem) :
          Apply("destroy", o, FALSE)

Init ==
    /\ buf = NoBuffer
    /\ img = NoImage
    /\ allocator = AllocatorInit
    /\ device = DeviceInit
    /\ mem = ZeroMem
    /\ last = LastInit
    /\ shader = NoShader
    /\ built = NotBuilt
    /\ sets = NoSets

Next ==
    \/ Buffer_new
    \/ Buffer_destroy
    \/ Buffer_copy_from_slice
    \/ Image_new
    \/ Image_create_view
    \/ Image_destroy

Spec == Init /\ [][Next]_vars

(***************************************************************************)
(* Claims about Buffer and Image, checked under Spec.                       *)
(***************************************************************************)

\* C1: a copy_from_slice with offset + byte length > size fails (the model's
\* "panic" stands for the OffsetOutOfBounds failure) and leaves the buffer as
\* it was: no byte of mapped memory and no field, has_been_written_to
\* included, changes.
C1_OutOfBoundsWriteRejected ==
    (last.op = "copy_from_slice" /\ last.oob) =>
        /\ last.result = "panic"
        /\ ~last.memChanged
        /\ ~last.changed

\* C2: a second destroy of a Buffer or Image fails, and fails before it calls
\* the allocator or the device; the resource's Allocation is given to free at
\* most once and its buffer/image handle is destroyed at most once.
C2_SecondDestroyFailsUntouched ==
    /\ \A a \in DOMAIN allocator.freeCalls : allocator.freeCalls[a] <= 1
    /\ device.destroyBuffer <= 1
    /\ device.destroyImage <= 1
    /\ (last.op = "destroy" /\ last.destroyCalls >= 2) =>
          /\ last.result = "panic"
          /\ last.deviceCalls = 0
          /\ last.allocatorCalls = 0

\* C3: when the image handle is destroyed, every view created from the image
\* has already been destroyed.
C3_NoViewOutlivesImage ==
    device.viewsAtImageDestroy = {}

\* C4: every call on a destroyed Buffer or Image is rejected, creates no
\* device object and changes no field of the resource.
C4_DestroyedIsTerminal ==
    (last.op # "none" /\ last.destroyed) =>
        /\ last.result = "panic"
        /\ ~last.created
        /\ ~last.changed

\* C5: has_been_written_to is false right after Buffer::new; it is true only
\* if some earlier copy_from_slice returned normally; a copy_from_slice that
\* fails and a destroy leave it as it was.
C5_WrittenFlagOnlyBySuccessfulWrite ==
    /\ (buf.constructed /\ last.op = "new") => ~buf.has_been_written_to
    /\ buf.has_been_written_to => last.written
    /\ (last.op = "copy_from_slice" /\ last.result # "ok") => ~last.flagChanged
    /\ last.op = "destroy" => ~last.flagChanged

\* C5's case: a buffer written to, then destroyed, then written to again: the
\* last write failed and the flag is still set.
C5_Witness ==
    /\ buf.has_been_written_to
    /\ last.op = "copy_from_slice"
    /\ last.result = "panic"
    /\ last.destroyed

(***************************************************************************)
(* Shader reflection data (shaders.rs:43-44).  A shader is a map from set   *)
(* index to a non-empty map from binding index to DescriptorInfo; a         *)
(* DescriptorInfo is [ty, name], the two fields the code reads.  A name is  *)
(* a sequence of characters.                                                *)
(***************************************************************************)
MaxSetIndex == 2    \* set indices 0..MaxSetIndex
MaxBindings == 3    \* bindings of a shader, over all its sets
MaxSpecLen == 4     \* characters after the prefix of a sampler name

SetIndices == 0..MaxSetIndex
BindingIndices == {0, 1}

\* rspirv_reflect::DescriptorType values the match of lines 145-269 names...
SupportedKinds ==
    {"UNIFORM_BUFFER", "UNIFORM_TEXEL_BUFFER", "STORAGE_IMAGE", "STORAGE_BUFFER",
     "STORAGE_BUFFER_DYNAMIC", "SAMPLED_IMAGE", "SAMPLER",
     "ACCELERATION_STRUCTURE_KHR"}
\* ... and those it leaves to the `_` arm.
OtherKinds ==
    {"UNIFORM_BUFFER_DYNAMIC", "COMBINED_IMAGE_SAMPLER", "STORAGE_TEXEL_BUFFER",
     "INPUT_ATTACHMENT"}
Kinds == SupportedKinds \cup OtherKinds

SamplerPrefix == <<"s", "a", "m", "p", "l", "e", "r", "_">>
DynSuffix == <<"_", "d", "y", "n">>
Foo == <<"f", "o", "o">>

\* str::strip_prefix: Some(rest) when name starts with prefix, else None.
StripPrefix(name, prefix) ==
    IF Len(name) >= Len(prefix) /\ SubSeq(name, 1, Len(prefix)) = prefix
    THEN Some(SubSeq(name, Len(prefix) + 1, Len(name)))
    ELSE None

\* str::ends_with.
EndsWith(name, suffix) ==
    /\ Len(name) >= Len(suffix)
    /\ SubSeq(name, Len(name) - Len(suffix) + 1, Len(name)) = suffix

Panic == [result |-> "panic"]

\* The parse with the address code matched on its first character only.
ParseSamplerSpec_AddressByFirstChar(spec) ==
    IF Len(spec) < 3 THEN Panic
    ELSE IF spec[1] \notin {"n", "l"} \/ spec[2] \notin {"n", "l"} THEN Panic
    ELSE IF spec[3] \notin {"r", "m", "c"} THEN Panic
    ELSE [result |-> "ok",
          desc |-> [texel_filter |-> IF spec[1] = "n" THEN "NEAREST" ELSE "LINEAR",
                    mipmap_mode |-> IF spec[2] = "n" THEN "NEAREST" ELSE "LINEAR",
                    address_modes |-> IF spec[3] = "r" THEN "REPEAT"
                                      ELSE IF spec[3] = "m" THEN "MIRRORED_REPEAT"
                                      ELSE "CLAMP_TO_EDGE"]]

\* Lines 218-238: the filter code, the mipmap code, then the address code,
\* which must be all that is left.  &spec[..1] panics on an empty spec.
ParseSamplerSpec(spec) ==
    IF Len(spec) < 1 THEN Panic
    ELSE IF spec[1] \notin {"n", "l"} THEN Panic
    ELSE LET texel_filter == IF spec[1] = "n" THEN "NEAREST" ELSE "LINEAR"
             spec1 == Tail(spec)
         IN  IF Len(spec1) < 1 THEN Panic
             ELSE IF spec1[1] \notin {"n", "l"} THEN Panic
             ELSE LET mipmap_mode == IF spec1[1] = "n" THEN "NEAREST" ELSE "LINEAR"
                      spec2 == Tail(spec1)
                  IN  IF spec2 \notin {<<"r">>, <<"m", "r">>, <<"c">>, <<"c", "b">>}
                      THEN Panic
                      ELSE [result |-> "ok",
                            desc |-> [texel_filter |-> texel_filter,
                                      mipmap_mode |-> mipmap_mode,
                                      address_modes |->
                                          IF spec2 = <<"r">> THEN "REPEAT"
                                          ELSE IF spec2 = <<"m", "r">> THEN "MIRRORED_REPEAT"
                                          ELSE IF spec2 = <<"c">> THEN "CLAMP_TO_EDGE"
                                          ELSE "CLAMP_TO_BORDER"]]

\* The inner match with the suffix looked for at the start of the name too.
BufferDescriptorType_AnyDyn(binding) ==
    IF binding.ty = "UNIFORM_BUFFER" THEN Some("UNIFORM_BUFFER")
    ELSE IF binding.ty = "UNIFORM_BUFFER_DYNAMIC" THEN Some("UNIFORM_BUFFER_DYNAMIC")
    ELSE IF binding.ty = "UNIFORM_TEXEL_BUFFER" THEN Some("UNIFORM_TEXEL_BUFFER")
    ELSE IF binding.ty = "STORAGE_IMAGE" THEN Some("STORAGE_IMAGE")
    ELSE IF binding.ty = "STORAGE_BUFFER"
    THEN (IF EndsWith(binding.name, DynSuffix)
             \/ StripPrefix(binding.name, DynSuffix) # None
          THEN Some("STORAGE_BUFFER_DYNAMIC")
          ELSE Some("STORAGE_BUFFER"))
    ELSE IF binding.ty = "STORAGE_BUFFER_DYNAMIC" THEN Some("STORAGE_BUFFER_DYNAMIC")
    ELSE None

\* The inner match of lines 155-179, on the kinds the outer arm lets in.
BufferDescriptorType(binding) ==
    IF binding.ty = "UNIFORM_BUFFER" THEN Some("UNIFORM_BUFFER")
    ELSE IF binding.ty = "UNIFORM_BUFFER_DYNAMIC" THEN Some("UNIFORM_BUFFER_DYNAMIC")
    ELSE IF binding.ty = "UNIFORM_TEXEL_BUFFER" THEN Some("UNIFORM_TEXEL_BUFFER")
    ELSE IF binding.ty = "STORAGE_IMAGE" THEN Some("STORAGE_IMAGE")
    ELSE IF binding.ty = "STORAGE_BUFFER"
    THEN (IF EndsWith(binding.name, DynSuffix)
          THEN Some("STORAGE_BUFFER_DYNAMIC")
          ELSE Some("STORAGE_BUFFER"))
    ELSE IF binding.ty = "STORAGE_BUFFER_DYNAMIC" THEN Some("STORAGE_BUFFER_DYNAMIC")
    ELSE None

\* vk::DescriptorSetLayoutBinding as the code fills it in.
LayoutBinding(binding_index, ty, samplers) ==
    [binding |-> binding_index, descriptor_count |-> 1, descriptor_type |-> ty,
     stage_flags |-> "ALL", immutable_samplers |-> samplers]

\* The outer match with UNIFORM_BUFFER_DYNAMIC let into the buffer arm, whose
\* inner match has an arm for it.
TranslateBinding_DynamicUniform(binding_index, binding) ==
    IF binding.ty \in {"UNIFORM_BUFFER", "UNIFORM_BUFFER_DYNAMIC", "UNIFORM_TEXEL_BUFFER",
                       "STORAGE_IMAGE", "STORAGE_BUFFER", "STORAGE_BUFFER_DYNAMIC"}
    THEN [result |-> "ok",
          binding |-> LayoutBinding(binding_index,
                                    Unwrap(BufferDescriptorType(binding)), None)]
    ELSE IF binding.ty = "SAMPLED_IMAGE"
    THEN [result |-> "ok", binding |-> LayoutBinding(binding_index, "SAMPLED_IMAGE", None)]
    ELSE IF binding.ty = "SAMPLER"
    THEN (IF StripPrefix(binding.name, SamplerPrefix) = None THEN Panic
          ELSE LET parsed == ParseSamplerSpec(Unwrap(StripPrefix(binding.name, SamplerPrefix)))
               IN  IF parsed.result = "panic" THEN Panic
                   ELSE [result |-> "ok",
                         binding |-> LayoutBinding(binding_index, "SAMPLER",
                                                   Some(parsed.desc))])
    ELSE IF binding.ty = "ACCELERATION_STRUCTURE_KHR"
    THEN [result |-> "ok",
          binding |-> LayoutBinding(binding_index, "ACCELERATION_STRUCTURE_KHR", None)]
    ELSE Panic

\* The outer match of lines 145-269 for one reflected binding: the
\* DescriptorSetLayoutBinding pushed, or a panic.
TranslateBinding(binding_index, binding) ==
    IF binding.ty \in {"UNIFORM_BUFFER", "UNIFORM_TEXEL_BUFFER", "STORAGE_IMAGE",
                       "STORAGE_BUFFER", "STORAGE_BUFFER_DYNAMIC"}
    THEN (IF BufferDescriptorType(binding) = None THEN Panic
          ELSE [result |-> "ok",
                binding |-> LayoutBinding(binding_index,
                                          Unwrap(BufferDescriptorType(binding)), None)])
    ELSE IF binding.ty = "SAMPLED_IMAGE"
    THEN [result |-> "ok", binding |-> LayoutBinding(binding_index, "SAMPLED_IMAGE", None)]
    ELSE IF binding.ty = "SAMPLER"
    THEN (IF StripPrefix(binding.name, SamplerPrefix) = None THEN Panic
          ELSE LET parsed == ParseSamplerSpec(Unwrap(StripPrefix(binding.name, SamplerPrefix)))
               IN  IF parsed.result = "panic" THEN Panic
                   ELSE [result |-> "ok",
                         binding |-> LayoutBinding(binding_index, "SAMPLER",
                                                   Some(parsed.desc))])
    ELSE IF binding.ty = "ACCELERATION_STRUCTURE_KHR"
    THEN [result |-> "ok",
          binding |-> LayoutBinding(binding_index, "ACCELERATION_STRUCTURE_KHR", None)]
    ELSE Panic

\* The keys of a BTreeMap in iteration order: ascending.
RECURSIVE SortedKeys(_)
SortedKeys(S) ==
    IF S = {} THEN <<>>
    ELSE LET least == CHOOSE x \in S : \A y \in S : x <= y
         IN  <<least>> \o SortedKeys(S \ {least})

\* The loop of lines 144-270 over one set's bindings, in key order.
RECURSIVE TranslateBindings(_, _, _)
TranslateBindings(set, keys, bindings) ==
    IF keys = <<>> THEN [result |-> "ok", bindings |-> bindings]
    ELSE LET t == TranslateBinding(Head(keys), set[Head(keys)])
         IN  IF t.result = "panic" THEN Panic
             ELSE TranslateBindings(set, Tail(keys), Append(bindings, t.binding))

\* The descriptor set layout the device creates: its create info.
\* DescriptorSetLayoutCreateInfo::default() has no bindings and no flags.
EmptyLayout == [flags |-> {}, bindings |-> <<>>, binding_flags |-> <<>>]
SetLayout(bindings) ==
    [flags |-> {}, bindings |-> bindings,
     binding_flags |-> [k \in 1..Len(bindings) |-> "PARTIALLY_BOUND"]]

\* Lines 290-295: binding index -> descriptor type, collected into a HashMap.
TypeMap(bindings) ==
    [b \in {bindings[k].binding : k \in 1..Len(bindings)} |->
        LET k == CHOOSE k \in 1..Len(bindings) : bindings[k].binding = b
        IN  bindings[k].descriptor_type]
EmptyTypeMap == [b \in {} |-> "UNIFORM_BUFFER"]

\* set_count as the number of reflected sets.
SetCount_NumberOfSets(sh) ==
    Cardinality(DOMAIN sh)

\* Lines 121-126: the largest key + 1, or 0 without keys.
SetCount(sh) ==
    IF DOMAIN sh = {} THEN 0 ELSE Max({set_index + 1 : set_index \in DOMAIN sh})

\* The loop of lines 132-310 from set_index on; a panic leaves no result.
RECURSIVE BuildFrom(_, _, _, _, _)
BuildFrom(sh, set_index, set_count, set_layouts, set_layout_info) ==
    IF set_index >= set_count
    THEN [result |-> "ok", set_layouts |-> set_layouts,
          set_layout_info |-> set_layout_info]
    ELSE IF set_index \in DOMAIN sh
    THEN LET t == TranslateBindings(sh[set_index], SortedKeys(DOMAIN sh[set_index]), <<>>)
         IN  IF t.result = "panic"
             THEN [result |-> "panic", set_layouts |-> <<>>, set_layout_info |-> <<>>]
             ELSE BuildFrom(sh, set_index + 1, set_count,
                            Append(set_layouts, SetLayout(t.bindings)),
                            Append(set_layout_info, TypeMap(t.bindings)))
    ELSE BuildFrom(sh, set_index + 1, set_count,
                   Append(set_layouts, EmptyLayout),
                   Append(set_layout_info, EmptyTypeMap))

\* Shader::create_descriptor_set_layouts.
CreateDescriptorSetLayouts(sh) ==
    BuildFrom(sh, 0, SetCount(sh), <<>>, <<>>)

(***************************************************************************)
(* Shader::create_descriptor_sets (shaders.rs:60-103).                      *)
(***************************************************************************)
\* Lines 69-77 without the search: every occurrence pushes an entry.
AddPoolSize_AlwaysPush(descriptor_pool_sizes, ty) ==
    Append(descriptor_pool_sizes, [ty |-> ty, descriptor_count |-> 1])

\* Lines 69-77 for one descriptor type: bump the first entry of that type, or
\* push a new entry with count 1.
AddPoolSize(descriptor_pool_sizes, ty) ==
    IF \E k \in 1..Len(descriptor_pool_sizes) : descriptor_pool_sizes[k].ty = ty
    THEN LET k == CHOOSE k \in 1..Len(descriptor_pool_sizes) :
                      /\ descriptor_pool_sizes[k].ty = ty
                      /\ \A j \in 1..(k - 1) : descriptor_pool_sizes[j].ty # ty
         IN  [descriptor_pool_sizes EXCEPT ![k].descriptor_count = @ + 1]
    ELSE Append(descriptor_pool_sizes, [ty |-> ty, descriptor_count |-> 1])

\* The loops of lines 67-79 over the types in the order they are visited.
RECURSIVE PoolSizes(_, _)
PoolSizes(tys, descriptor_pool_sizes) ==
    IF tys = <<>> THEN descriptor_pool_sizes
    ELSE PoolSizes(Tail(tys), AddPoolSize(descriptor_pool_sizes, Head(tys)))

\* HashMap::values() visits the values in an order the code does not choose:
\* every order of the keys.
ValueOrders(bindings) ==
    LET n == Cardinality(DOMAIN bindings)
    IN  {[k \in 1..n |-> bindings[p[k]]] :
            p \in {q \in [1..n -> DOMAIN bindings] :
                      \A i, j \in 1..n : i # j => q[i] # q[j]}}

\* The orders in which lines 67-68 can visit the types of all the type maps.
RECURSIVE VisitOrders(_)
VisitOrders(set_layout_info) ==
    IF set_layout_info = <<>> THEN {<<>>}
    ELSE {first \o rest : first \in ValueOrders(Head(set_layout_info)),
                          rest \in VisitOrders(Tail(set_layout_info))}

\* Line 83.
PoolMaxSets == 1

\* allocate_descriptor_sets(...).unwrap(), lines 92-100: one set per layout.
\* Asking a pool for more sets than its max_sets is left to the driver: it
\* fails the call (out of pool memory, and unwrap panics) or hands out the
\* sets all the same.
AllocateDescriptorSets(max_sets, descriptor_set_layouts) ==
    LET allocated == [result |-> "ok",
                      descriptor_sets |->
                          [k \in 1..Len(descriptor_set_layouts) |->
                              [layout |-> descriptor_set_layouts[k]]]]
    IN  IF Len(descriptor_set_layouts) <= max_sets
        THEN {allocated}
        ELSE {allocated, [result |-> "panic", descriptor_sets |-> <<>>]}

\* Shader::create_descriptor_sets: what it can return and the pool it made.
CreateDescriptorSets(descriptor_set_layouts, set_layout_info) ==
    {[result |-> a.result,
      descriptor_pool_sizes |-> PoolSizes(tys, <<>>),
      max_sets |-> PoolMaxSets,
      descriptor_sets |-> a.descriptor_sets] :
        tys \in VisitOrders(set_layout_info),
        a \in AllocateDescriptorSets(PoolMaxSets, descriptor_set_layouts)}

(***************************************************************************)
(* The shaders checked.                                                     *)
(***************************************************************************)
Info(ty, name) == [ty |-> ty, name |-> name]

\* Reflected bindings of the shaders with several sets and bindings.
ShaderInfos ==
    {Info("UNIFORM_BUFFER", Foo),
     Info("STORAGE_BUFFER", Foo),
     Info("STORAGE_BUFFER", Foo \o DynSuffix),
     Info("SAMPLED_IMAGE", Foo),
     Info("SAMPLER", SamplerPrefix \o <<"n", "l", "c">>),
     Info("SAMPLER", SamplerPrefix \o <<"l", "r", "X">>),
     Info("COMBINED_IMAGE_SAMPLER", Foo)}

\* The shader with the bindings `slots` (pairs <<set, binding>>), described
\* by info.  Reflection never yields a set without bindings.
MakeShader(slots, info) ==
    [set_index \in {sl[1] : sl \in slots} |->
        [binding_index \in {sl[2] : sl \in {x \in slots : x[1] = set_index}} |->
            info[<<set_index, binding_index>>]]]

\* Names of the one-binding shaders: sampler names with and without the
\* prefix, followed by up to MaxSpecLen code characters ...
SpecChars == {"n", "l", "r", "m", "c", "b", "X"}
SamplerSpecs == UNION {[1..n -> SpecChars] : n \in 0..MaxSpecLen}
NamePrefixes == {SamplerPrefix, <<"s", "a", "m", "p", "l", "e", "r">>, <<>>}
SamplerNames == {p \o sp : p \in NamePrefixes, sp \in SamplerSpecs}
\* ... and names around the _dyn suffix.
DynNames ==
    {base \o suffix :
        base \in {<<>>, Foo},
        suffix \in {<<>>, DynSuffix, <<"d", "y", "n">>, <<"_", "d", "y">>,
                    DynSuffix \o <<"_">>, DynSuffix \o Foo, DynSuffix \o DynSuffix,
                    <<"_", "D", "Y", "N">>}}
BindingInfos ==
    {Info("SAMPLER", name) : name \in SamplerNames}
        \cup {Info(ty, name) : ty \in Kinds, name \in DynNames}

(***************************************************************************)
(* Actions and specifications of the shader code.                           *)
(***************************************************************************)
create_descriptor_set_layouts ==
    /\ built.result = "none"
    /\ built' = CreateDescriptorSetLayouts(shader)
    /\ UNCHANGED <<buf, img, allocator, device, mem, last, shader, sets>>

\* The caller hands over what create_descriptor_set_layouts returned.
create_descriptor_sets ==
    /\ built.result = "ok"
    /\ sets.result = "none"
    /\ sets' \in CreateDescriptorSets(built.set_layouts, built.set_layout_info)
    /\ UNCHANGED <<buf, img, allocator, device, mem, last, shader, built>>

NoResource ==
    /\ buf = NoBuffer
    /\ img = NoImage
    /\ allocator = AllocatorInit
    /\ device = DeviceInit
    /\ mem = ZeroMem
    /\ last = LastInit

\* Shader::new, lines 47-58: any reflected layout within the bounds.
InitShader ==
    /\ NoResource
    /\ \E slots \in {sl \in SUBSET (SetIndices \X BindingIndices) :
                        Cardinality(sl) <= MaxBindings} :
       \E info \in [slots -> ShaderInfos] :
          shader = MakeShader(slots, info)
    /\ built = NotBuilt
    /\ sets = NoSets

\* Shader::new for a shader with one binding, of any kind and name.
InitBinding ==
    /\ NoResource
    /\ \E info \in BindingInfos : shader = MakeShader({<<0, 0>>}, [sl \in {<<0, 0>>} |-> info])
    /\ built = NotBuilt
    /\ sets = NoSets

NextShader ==
    \/ create_descriptor_set_layouts
    \/ create_descriptor_sets

SpecShader == InitShader /\ [][NextShader]_vars
SpecBinding == InitBinding /\ [][NextShader]_vars

\* Bindings of every kind, each with a name its kind accepts.
MaxKindBindings == 2    \* bindings of a shader checked over every kind
KindInfos ==
    {Info(ty, IF ty = "SAMPLER" THEN SamplerPrefix \o <<"n", "l", "c">> ELSE Foo) :
        ty \in Kinds}

\* Shader::new for shaders of up to MaxKindBindings bindings of any kinds.
InitKinds ==
    /\ NoResource
    /\ \E slots \in {sl \in SUBSET (SetIndices \X BindingIndices) :
                        Cardinality(sl) <= MaxKindBindings} :
       \E info \in [slots -> KindInfos] :
          shader = MakeShader(slots, info)
    /\ built = NotBuilt
    /\ sets = NoSets

SpecKinds == InitKinds /\ [][NextShader]_vars

(***************************************************************************)
(* Claims about the shader code.                                            *)
(***************************************************************************)
\* The reflected bindings of the shader, as <<set index, binding index>>.
ReflectedBindings ==
    {sb \in SetIndices \X BindingIndices :
        sb[1] \in DOMAIN shader /\ sb[2] \in DOMAIN shader[sb[1]]}

\* C6: the layouts and the type maps returned both have length maxSet, which
\* is 1 + the highest reflected set index (0 without sets); position s is set
\* index s: a reflected set's layout and type map have its binding indices, a
\* set index without bindings has an empty layout and an empty type map.
C6_OneLayoutPerSetIndex ==
    LET maxSet == IF DOMAIN shader = {} THEN 0
                  ELSE 1 + (CHOOSE s \in DOMAIN shader : \A t \in DOMAIN shader : t <= s)
    IN  built.result = "ok" =>
          /\ Len(built.set_layouts) = maxSet
          /\ Len(built.set_layout_info) = maxSet
          /\ \A s \in 0..(maxSet - 1) :
                LET layout == built.set_layouts[s + 1]
                    types == built.set_layout_info[s + 1]
                    indices == IF s \in DOMAIN shader THEN DOMAIN shader[s] ELSE {}
                IN  /\ DOMAIN types = indices
                    /\ {layout.bindings[k].binding : k \in 1..Len(layout.bindings)} = indices
                    /\ Len(layout.bindings) = Cardinality(indices)
                    /\ s \notin DOMAIN shader =>
                          layout.flags = {} /\ layout.binding_flags = <<>>

\* C6's case: a shader with sets 0 and 2 was built: three layouts, the one
\* of set 1 a placeholder.
C6_Witness ==
    /\ built.result = "ok"
    /\ DOMAIN shader = {0, 2}
    /\ Len(built.set_layouts) = 3
    /\ built.set_layouts[2] = EmptyLayout
    /\ DOMAIN built.set_layout_info[2] = {}
    /\ DOMAIN built.set_layout_info[3] = DOMAIN shader[2]

\* The grammar of C7: the codes and what they stand for.
C7_Filter(code) == IF code = "n" THEN "NEAREST" ELSE "LINEAR"
C7_Address(code) ==
    IF code = <<"r">> THEN "REPEAT"
    ELSE IF code = <<"m", "r">> THEN "MIRRORED_REPEAT"
    ELSE IF code = <<"c">> THEN "CLAMP_TO_EDGE"
    ELSE "CLAMP_TO_BORDER"
C7_AddressCodes == {<<"r">>, <<"m", "r">>, <<"c">>, <<"c", "b">>}

\* C7: a shader whose one binding is a sampler builds exactly when the name
\* is sampler_ + filter code (n, l) + mipmap code (n, l) + address code (r,
\* mr, c, cb), and the binding then carries that sampler; with any other name
\* the build fails.
C7_SamplerNameGrammar ==
    \A sb \in ReflectedBindings :
        LET binding == shader[sb[1]][sb[2]]
            Named(f, m, a) == binding.name = SamplerPrefix \o <<f, m>> \o a
            valid == \E f \in {"n", "l"}, m \in {"n", "l"}, a \in C7_AddressCodes :
                        Named(f, m, a)
        IN  (binding.ty = "SAMPLER" /\ built.result # "none" /\ ReflectedBindings = {sb}) =>
              /\ built.result = "ok" <=> valid
              /\ built.result = "panic" <=> ~valid
              /\ \A f \in {"n", "l"}, m \in {"n", "l"}, a \in C7_AddressCodes :
                    Named(f, m, a) =>
                       /\ built.set_layout_info[sb[1] + 1][sb[2]] = "SAMPLER"
                       /\ built.set_layouts[sb[1] + 1].bindings[1].immutable_samplers =
                             {[texel_filter |-> C7_Filter(f),
                               mipmap_mode |-> C7_Filter(m),
                               address_modes |-> C7_Address(a)]}

\* C7's case: sampler_nlc was built into nearest, linear, clamp-to-edge.
C7_Witness ==
    /\ built.result = "ok"
    /\ ReflectedBindings = {<<0, 0>>}
    /\ shader[0][0] = Info("SAMPLER", SamplerPrefix \o <<"n", "l", "c">>)
    /\ built.set_layouts[1].bindings[1].immutable_samplers =
          {[texel_filter |-> "NEAREST", mipmap_mode |-> "LINEAR",
            address_modes |-> "CLAMP_TO_EDGE"]}

\* C8: a binding reflected as a storage buffer gets the dynamic storage
\* buffer type in the type map if its name ends with _dyn, and the plain
\* storage buffer type if it does not.
C8_DynSuffixMakesDynamic ==
    \A sb \in ReflectedBindings :
        LET binding == shader[sb[1]][sb[2]]
            n == Len(binding.name)
            endsDyn == /\ n >= 4
                       /\ binding.name[n - 3] = "_"
                       /\ binding.name[n - 2] = "d"
                       /\ binding.name[n - 1] = "y"
                       /\ binding.name[n] = "n"
        IN  (binding.ty = "STORAGE_BUFFER" /\ built.result = "ok") =>
               built.set_layout_info[sb[1] + 1][sb[2]] =
                  IF endsDyn THEN "STORAGE_BUFFER_DYNAMIC" ELSE "STORAGE_BUFFER"

\* C8's case: a storage buffer named foo_dyn was built as dynamic.
C8_Witness ==
    /\ built.result = "ok"
    /\ ReflectedBindings = {<<0, 0>>}
    /\ shader[0][0] = Info("STORAGE_BUFFER", Foo \o DynSuffix)
    /\ built.set_layout_info[1][0] = "STORAGE_BUFFER_DYNAMIC"

\* C9: the pool sizes hold exactly one entry for each descriptor type that
\* occurs in some type map, with the number of bindings of that type over all
\* type maps as its count, and no entry for any other type.
C9_PoolSizesCountEachType ==
    sets.result # "none" =>
        \A ty \in Kinds :
            LET dps == sets.descriptor_pool_sizes
                info == built.set_layout_info
                occurrences == {sb \in (1..Len(info)) \X BindingIndices :
                                   sb[2] \in DOMAIN info[sb[1]] /\ info[sb[1]][sb[2]] = ty}
                entries == {k \in 1..Len(dps) : dps[k].ty = ty}
            IN  IF occurrences = {} THEN entries = {}
                ELSE /\ Cardinality(entries) = 1
                     /\ \A k \in entries :
                           dps[k].descriptor_count = Cardinality(occurrences)

\* C9's case: two uniform buffers and a sampler gave {uniformBuffer: 2,
\* sampler: 1}.
C9_Witness ==
    /\ sets.result # "none"
    /\ {sets.descriptor_pool_sizes[k] : k \in 1..Len(sets.descriptor_pool_sizes)} =
          {[ty |-> "UNIFORM_BUFFER", descriptor_count |-> 2],
           [ty |-> "SAMPLER", descriptor_count |-> 1]}
    /\ Len(built.set_layout_info) = 2

\* C10: create_descriptor_sets makes a pool of at most one set and returns one
\* set per layout, in the layouts' order, for any number of layouts, without
\* allocating more sets than the pool's maximum.
C10_OneSetPerLayoutWithinPool ==
    sets.result # "none" =>
        /\ sets.result = "ok"
        /\ sets.max_sets = 1
        /\ Len(sets.descriptor_sets) = Len(built.set_layouts)
        /\ \A k \in 1..Len(sets.descriptor_sets) :
              sets.descriptor_sets[k].layout = built.set_layouts[k]
        /\ Len(sets.descriptor_sets) <= sets.max_sets

\* C11: create_descriptor_set_layouts returns only if every reflected binding
\* is a uniform buffer, uniform texel buffer, storage image, storage buffer,
\* dynamic storage buffer, sampled image, sampler or acceleration structure;
\* if some binding of some set is of another kind, the build fails and
\* returns no layouts and no type maps.
C11_OtherKindsFailTheBuild ==
    LET accepted == {"UNIFORM_BUFFER", "UNIFORM_TEXEL_BUFFER", "STORAGE_IMAGE",
                     "STORAGE_BUFFER", "STORAGE_BUFFER_DYNAMIC", "SAMPLED_IMAGE",
                     "SAMPLER", "ACCELERATION_STRUCTURE_KHR"}
        others == {sb \in ReflectedBindings : shader[sb[1]][sb[2]].ty \notin accepted}
    IN  built.result # "none" =>
          /\ built.result = "ok" => others = {}
          /\ others # {} =>
                /\ built.result = "panic"
                /\ built.set_layouts = <<>>
                /\ built.set_layout_info = <<>>

\* C11's case: a shader with a uniform buffer in set 0 and a dynamic uniform
\* buffer in set 2 failed to build.
C11_Witness ==
    /\ built.result = "panic"
    /\ ReflectedBindings = {<<0, 0>>, <<2, 1>>}
    /\ shader[0][0].ty = "UNIFORM_BUFFER"
    /\ shader[2][1].ty = "UNIFORM_BUFFER_DYNAMIC"

====
